---- MODULE Spec2Model ----
(***************************************************************************)
(* Model of ContentAnalysisAgent.analyze (src/analyzer/content_analysis.py).*)
(*                                                                         *)
(* One evaluation is modelled in three steps: Begin (the html check, the   *)
(* broken-link rendering and the prompt), GenerateContent (the single call *)
(* to the inference model, whose outcome is chosen nondeterministically)   *)
(* and Resolve (cleaning and parsing of the reply, the except handler, the *)
(* thresholds and the construction of the AnalysisResult).                 *)
(*                                                                         *)
(* Python values whose type the code does not control (html, the parsed    *)
(* reply, the score) are tagged records [t |-> <type>, ...].  Strings that *)
(* the code assembles or edits are sequences of pieces.                    *)
(* Status strings are written in ASCII:                                    *)
(*   "Normal" = "✅ 正常", "Suspect" = "⚠️ 疑似",                            *)
(*   "Outdated" = "❌ 過時", "Error" = "❌ 錯誤".                             *)
(***************************************************************************)
EXTENDS Integers, Sequences, FiniteSets, TLC

VARIABLES
    pc,                \* "idle", "calling", "resolving", "returned", "raised"
    crawl_result,      \* the argument of analyze
    broken_links_str,  \* local
    prompt,            \* local
    calls,             \* calls of self.model.generate_content made so far
    response,          \* what the call did: raised, or the reply
    score,             \* local
    notes,             \* local
    status,            \* local
    result,            \* the AnalysisResult returned
    verdicts           \* AnalysisResults returned so far

vars == <<pc, crawl_result, broken_links_str, prompt, calls, response,
          score, notes, status, result, verdicts>>

----------------------------------------------------------------------------
(* Bounds of the model *)

\* most entries of crawl_result.link_status
MaxLinks == 2
\* most pieces (whitespace, backtick, "json" tag, document) of a reply text
MaxReply == 2

----------------------------------------------------------------------------
(* Python values *)

Unset == [t |-> "unset"]
PyNone == [t |-> "None"]
PyInt(n) == [t |-> "int", v |-> n]
\* a float, held in tenths (49.5 is v10 = 495)
PyFloat(n10) == [t |-> "float", v10 |-> n10]
PyBool(b) == [t |-> "bool", b |-> b]
PyStr(s) == [t |-> "str", v |-> s]
PyList == [t |-> "list"]
PyDict(items) == [t |-> "dict", items |-> items]

\* "is not None" in place of truthiness: the empty string passes
TruthyNotNone(x) == x.t = "str"

\* bool(x) for the values crawl_result.html takes: None and "" are falsy
Truthy(x) == x.t = "str" /\ x.len > 0

\* x < n for an integer literal n; Python raises TypeError for str, None,
\* list and dict operands
Comparable(x) == x.t \in {"int", "float", "bool"}

Lt(x, n) ==
    CASE x.t = "int" -> x.v < n
      [] x.t = "float" -> x.v10 < 10 * n
      [] x.t = "bool" -> (IF x.b THEN 1 ELSE 0) < n

----------------------------------------------------------------------------
(* The crawl input *)

Urls == {"https://example.gov", "https://other.gov"}
Dates == {"", "2019-01-01"}
HtmlPrefixLen == 2000
\* html: absent, empty, shorter and longer than the prefix the prompt takes
Htmls == {PyNone, [t |-> "str", len |-> 0], [t |-> "str", len |-> 2001]}
Links == { "https://x" \o ToString(i) : i \in 1 .. MaxLinks }
Codes == {200, 403, 404}

\* a dict in insertion order: a sequence of (link, code) with distinct links
LinkStatuses ==
    UNION { { s \in [1 .. n -> [link : Links, code : Codes]] :
                \A i, j \in 1 .. n : i # j => s[i].link # s[j].link }
            : n \in 0 .. MaxLinks }

CrawlResults ==
    [url : Urls, html : Htmls, last_updated : Dates, link_status : LinkStatuses]

----------------------------------------------------------------------------
(* Broken links and the prompt *)

\* 403 left out of the broken links, as the rubric text suggests
NotOkIgnoring403(code) == code \notin {200, 403}

\* the filter of the list comprehension: code != 200
NotOk(code) == code # 200

RECURSIVE BrokenLinksList(_)
BrokenLinksList(ls) ==
    IF ls = <<>> THEN <<>>
    ELSE LET e == Head(ls)
             rest == BrokenLinksList(Tail(ls))
         IN IF NotOk(e.code)
            THEN <<e.link \o " (status: " \o ToString(e.code) \o ")">> \o rest
            ELSE rest

\* sep.join(lines), as a sequence of pieces
RECURSIVE Join(_, _)
Join(sep, lines) ==
    IF lines = <<>> THEN <<>>
    ELSE IF Len(lines) = 1 THEN <<Head(lines)>>
    ELSE <<Head(lines), sep>> \o Join(sep, Tail(lines))

BrokenLinksStr(cr) == Join("\n", BrokenLinksList(cr.link_status))

Min(a, b) == IF a < b THEN a ELSE b

BuildPrompt(cr, broken) ==
    [today |-> "today",
     url |-> cr.url,
     last_updated |-> IF cr.last_updated = "" THEN "NotFound" ELSE cr.last_updated,
     broken_links |-> IF broken = <<>> THEN <<"None">> ELSE broken,
     html_len |-> Min(cr.html.len, HtmlPrefixLen)]

----------------------------------------------------------------------------
(* The inference reply *)

\* the notes of a reply: a plain sentence, and one quoting a name in backticks
ReplyNotes == { <<"stale content">>, <<"uses ", "bt", "jQuery 1.x", "bt">> }
ReplyIntScores == {-1, 49, 50, 79, 80, 100, 101}
ReplyScores ==
    { PyInt(n) : n \in ReplyIntScores }
    \cup { PyFloat(495), PyBool(TRUE), PyStr(<<"85">>), PyNone, PyList,
           PyDict(<<>>) }

\* a JSON object with a score field (when hs) and a notes field (when hn)
Obj(hs, s, hn, n) ==
    PyDict([k \in (IF hs THEN {"score"} ELSE {}) \cup (IF hn THEN {"notes"} ELSE {})
              |-> IF k = "score" THEN s ELSE PyStr(n)])

JsonObjects ==
    { Obj(hs, s, hn, n) : hs \in BOOLEAN, s \in ReplyScores,
                          hn \in BOOLEAN, n \in ReplyNotes }

\* the document inside a reply: not JSON at all, or the text of a JSON value
Garbage == [kind |-> "garbage"]
Docs ==
    {Garbage}
    \cup { [kind |-> "json", val |-> v] : v \in JsonObjects \cup {PyNone, PyList} }

\* the pieces around the document: whitespace, a backtick, the tag "json",
\* and "doc" for the place of the document
Pieces == {"ws", "bt", "json", "doc"}
Shapes == UNION { [1 .. n -> Pieces] : n \in 0 .. MaxReply }

HasDoc(shape) == \E i \in 1 .. Len(shape) : shape[i] = "doc"

Texts ==
    { t \in [shape : Shapes, doc : Docs] : HasDoc(t.shape) \/ t.doc = Garbage }

\* what self.model.generate_content(prompt) and response.text can do
Outcomes ==
    { [kind |-> "raise"], [kind |-> "notext"] }
    \cup { [kind |-> "text", text |-> t] : t \in Texts }

----------------------------------------------------------------------------
(* Cleaning and parsing the reply *)

IsWs(p) == p = "ws"

RECURSIVE LStrip(_)
LStrip(sh) ==
    IF sh # <<>> /\ IsWs(Head(sh)) THEN LStrip(Tail(sh)) ELSE sh

RECURSIVE RStrip(_)
RStrip(sh) ==
    IF sh # <<>> /\ IsWs(sh[Len(sh)]) THEN RStrip(SubSeq(sh, 1, Len(sh) - 1)) ELSE sh

Strip(sh) == RStrip(LStrip(sh))

\* s.replace(backtick, '') on a sequence of pieces; "bt" is the backtick
RECURSIVE Without(_, _)
Without(s, p) ==
    IF s = <<>> THEN <<>>
    ELSE IF Head(s) = p THEN Without(Tail(s), p)
    ELSE <<Head(s)>> \o Without(Tail(s), p)

\* the replace reaches the strings inside the document too
RemoveBackticksVal(v) ==
    IF v.t = "str" THEN PyStr(Without(v.v, "bt"))
    ELSE IF v.t = "dict"
    THEN PyDict([k \in DOMAIN v.items |->
                   IF v.items[k].t = "str"
                   THEN PyStr(Without(v.items[k].v, "bt"))
                   ELSE v.items[k]])
    ELSE v

RemoveBackticksDoc(d) ==
    IF d.kind = "json" THEN [kind |-> "json", val |-> RemoveBackticksVal(d.val)] ELSE d

\* response.text.strip().replace(backtick, ''), then the leading "json" dropped
Clean(text) ==
    LET stripped == Strip(text.shape)
        noticks == Without(stripped, "bt")
        untagged == IF noticks # <<>> /\ Head(noticks) = "json"
                    THEN Tail(noticks) ELSE noticks
    IN [shape |-> untagged, doc |-> RemoveBackticksDoc(text.doc)]

\* json.loads: whitespace around one JSON document is allowed, anything else
\* is a JSONDecodeError
JsonLoads(text) ==
    LET body == Strip(text.shape)
    IN IF body = <<"doc">> /\ text.doc.kind = "json"
       THEN [ok |-> TRUE, val |-> text.doc.val]
       ELSE [ok |-> FALSE]

\* data.get(k) without its default
DictGetNoDefault(d, k, default) ==
    IF k \in DOMAIN d.items THEN d.items[k] ELSE PyNone

\* data.get(k, default)
DictGet(d, k, default) ==
    IF k \in DOMAIN d.items THEN d.items[k] ELSE default

\* the string literals of lines 37, 44, 110 and 115 are given in English
DefaultScore == 100
DefaultNotes == PyStr(<<"no valid reply from the API">>)
FailSafeScore == 100
DiagPrefix == "failed to parse the API response: "

Raised(reason) == [exc |-> reason]

\* the body of the try block: the exception it ends with ("none" when it
\* completes) and the score and notes it assigns
TryBlock(resp) ==
    IF resp.kind = "raise" THEN Raised("CallError")
    ELSE IF resp.kind = "notext" THEN Raised("ValueError")
    ELSE LET data == JsonLoads(Clean(resp.text))
         IN IF ~data.ok THEN Raised("JSONDecodeError")
            ELSE IF data.val.t # "dict" THEN Raised("AttributeError")
            ELSE [exc |-> "none",
                  score |-> DictGet(data.val, "score", PyInt(DefaultScore)),
                  notes |-> DictGet(data.val, "notes", DefaultNotes)]

\* except (json.JSONDecodeError, ValueError, Exception)
Caught(exc) == TRUE

\* a handler that assumes the page is fine
FailSilent(exc) ==
    [exc |-> "none",
     score |-> PyInt(0),
     notes |-> PyStr(<<DiagPrefix, exc>>)]

\* the except handler: score = 100 and the diagnostic note
FailSafe(exc) ==
    [exc |-> "none",
     score |-> PyInt(FailSafeScore),
     notes |-> PyStr(<<DiagPrefix, exc>>)]

\* the try statement as a whole
Resolved(resp) ==
    LET handle(r) == IF r.exc # "none" /\ Caught(r.exc) THEN FailSafe(r.exc) ELSE r
    IN handle(TryBlock(resp))

\* score <= 50 in place of score < 50
StatusOfOffByOne(s) ==
    IF Lt(s, 51) THEN "Normal"
    ELSE IF Lt(s, 80) THEN "Suspect"
    ELSE "Outdated"

\* the elif branch lost
StatusOfNoSuspect(s) ==
    IF Lt(s, 50) THEN "Normal" ELSE "Outdated"

NormalBelow == 50
SuspectBelow == 80

\* the thresholds of lines 118-123
StatusOf(s) ==
    IF Lt(s, NormalBelow) THEN "Normal"
    ELSE IF Lt(s, SuspectBelow) THEN "Suspect"
    ELSE "Outdated"

----------------------------------------------------------------------------
(* The results *)

SentinelScore == 100
SentinelNotes == PyStr(<<"unable to fetch the page content">>)

\* the AnalysisResult of lines 32-39
Sentinel(cr) ==
    [url |-> cr.url,
     status |-> "Error",
     last_updated |-> "",
     score |-> PyInt(SentinelScore),
     notes |-> SentinelNotes,
     broken_links |-> <<>>]

\* the result built like the sentinel, without the date
AnalysisResultNoDate(cr, st, sc, nt, broken) ==
    [url |-> cr.url,
     status |-> st,
     last_updated |-> "",
     score |-> sc,
     notes |-> nt,
     broken_links |-> broken]

\* the AnalysisResult of lines 125-132
AnalysisResult(cr, st, sc, nt, broken) ==
    [url |-> cr.url,
     status |-> st,
     last_updated |-> cr.last_updated,
     score |-> sc,
     notes |-> nt,
     broken_links |-> broken]

----------------------------------------------------------------------------
(* The state machine *)

Init ==
    /\ pc = "idle"
    /\ crawl_result = Unset
    /\ broken_links_str = Unset
    /\ prompt = Unset
    /\ calls = 0
    /\ response = Unset
    /\ score = Unset
    /\ notes = Unset
    /\ status = "unset"
    /\ result = Unset
    /\ verdicts = 0

\* analyze is entered with crawl_result = cr: lines 30-99
BeginWith(cr) ==
    /\ crawl_result' = cr
    /\ IF ~Truthy(cr.html)
       THEN /\ result' = Sentinel(cr)
            /\ verdicts' = verdicts + 1
            /\ pc' = "returned"
            /\ UNCHANGED <<broken_links_str, prompt>>
       ELSE /\ broken_links_str' = BrokenLinksStr(cr)
            /\ prompt' = BuildPrompt(cr, BrokenLinksStr(cr))
            /\ pc' = "calling"
            /\ UNCHANGED <<result, verdicts>>
    /\ UNCHANGED <<calls, response, score, notes, status>>

Begin ==
    /\ pc = "idle"
    /\ \E cr \in CrawlResults : BeginWith(cr)

\* a retry loop around the call
PcAfterCallRetry(out) == IF out.kind = "raise" THEN "calling" ELSE "resolving"

\* where control goes once the call has returned or raised: on to the
\* cleaning of the reply, or to the except handler; never back to the call
PcAfterCall(out) == "resolving"

\* self.model.generate_content(prompt): line 102
Reply(out) ==
    /\ calls' = calls + 1
    /\ response' = out
    /\ pc' = PcAfterCall(out)
    /\ UNCHANGED <<crawl_result, broken_links_str, prompt, score, notes, status,
                   result, verdicts>>

GenerateContent ==
    /\ pc = "calling"
    /\ \E out \in Outcomes : Reply(out)

\* lines 104-132
Resolve ==
    /\ pc = "resolving"
    /\ \E r \in {Resolved(response)} :
         IF r.exc # "none"
         THEN /\ pc' = "raised"
              /\ UNCHANGED <<score, notes, status, result, verdicts>>
         ELSE /\ score' = r.score
              /\ notes' = r.notes
              /\ IF Comparable(r.score)
                 THEN \E st \in {StatusOf(r.score)} :
                        /\ status' = st
                        /\ result' = AnalysisResult(crawl_result, st, r.score,
                                                    r.notes, broken_links_str)
                        /\ verdicts' = verdicts + 1
                        /\ pc' = "returned"
                 ELSE /\ pc' = "raised"
                      /\ UNCHANGED <<status, result, verdicts>>
    /\ UNCHANGED <<crawl_result, broken_links_str, prompt, calls, response>>

Next ==
    \/ Begin
    \/ GenerateContent
    \/ Resolve

Spec == Init /\ [][Next]_vars

----------------------------------------------------------------------------
(* Vocabulary of the properties, stated on the input and the reply alone *)

Finished == pc \in {"returned", "raised"}
Returned == pc = "returned"

HtmlEmpty ==
    pc # "idle"
    /\ (crawl_result.html.t = "None"
        \/ (crawl_result.html.t = "str" /\ crawl_result.html.len = 0))
HtmlNonEmpty ==
    pc # "idle" /\ crawl_result.html.t = "str" /\ crawl_result.html.len > 0

\* the reply went through cleaning and json.loads without an error
Parsed == response.kind = "text" /\ JsonLoads(Clean(response.text)).ok
ParsedVal == JsonLoads(Clean(response.text)).val
ParsedObject == Parsed /\ ParsedVal.t = "dict"
HasField(k) == k \in DOMAIN ParsedVal.items

\* the call raised, the reply had no text, or the cleaned reply is not JSON
InferenceFailed == response.kind \in {"raise", "notext"} \/ ~Parsed

FailureReason ==
    IF response.kind = "raise" THEN "CallError"
    ELSE IF response.kind = "notext" THEN "ValueError"
    ELSE "JSONDecodeError"

\* a numeric score in tenths
Tenths(x) ==
    CASE x.t = "int" -> 10 * x.v
      [] x.t = "float" -> x.v10
      [] x.t = "bool" -> IF x.b THEN 10 ELSE 0

Statuses == {"Normal", "Suspect", "Outdated"}

----------------------------------------------------------------------------
(* The claims *)

\* C1: analyze returns a Verdict and never raises, whatever the crawl input
\* and whatever the inference call does (failing call, reply that is not
\* JSON, JSON that is not an object, object with a missing or wrong-typed
\* score).
C1_NeverRaises == pc # "raised"

\* C2: the score of the Verdict returned is an integer in [0,100]; a reply
\* score that is out of range or not an integer is never returned raw.
C2_ScoreInRange ==
    Returned => result.score.t = "int" /\ result.score.v \in 0 .. 100

\* C3: with non-empty html, when the inference step fails (the call raises,
\* the reply has no text, the cleaned reply is not JSON) the Verdict returned
\* has score 100, status Outdated and a diagnostic note embedding the reason
\* of the failure; a failure never ends in Normal or Suspect.
C3_FailSafe ==
    (Finished /\ HtmlNonEmpty /\ InferenceFailed) =>
        /\ Returned
        /\ result.score = PyInt(100)
        /\ result.status = "Outdated"
        /\ result.notes = PyStr(<<DiagPrefix, FailureReason>>)

C3_Witness ==
    /\ Returned /\ HtmlNonEmpty
    /\ response.kind = "text" /\ ~Parsed
    /\ result.status = "Outdated"

\* C4: with non-empty html and an integer score s resolved, the status is
\* Normal exactly when s < 50, Suspect exactly when 50 <= s < 80 and
\* Outdated exactly when s >= 80.
C4_Thresholds ==
    (Returned /\ HtmlNonEmpty /\ result.score.t = "int") =>
        LET s == result.score.v
        IN /\ result.status = "Normal" <=> s < 50
           /\ result.status = "Suspect" <=> (50 <= s /\ s < 80)
           /\ result.status = "Outdated" <=> s >= 80

C4_Witness ==
    /\ Returned /\ HtmlNonEmpty
    /\ result.score = PyInt(50)
    /\ result.status = "Suspect"

\* C5: when html is absent or empty, analyze returns the sentinel Verdict
\* with score 100 and the "unable to fetch" note, builds no prompt and makes
\* no call to the inference model.
C5_ShortCircuit ==
    HtmlEmpty =>
        /\ Returned
        /\ result.score = PyInt(100)
        /\ result.notes = PyStr(<<"unable to fetch the page content">>)
        /\ result.broken_links = <<>>
        /\ calls = 0
        /\ prompt = Unset
        /\ response = Unset

C5_Witness ==
    /\ Returned
    /\ crawl_result.html.t = "str" /\ crawl_result.html.len = 0
    /\ calls = 0
    /\ result.score = PyInt(100)

\* C6, as claimed: in every Verdict returned, on the short-circuit path too,
\* status is one of Normal, Suspect, Outdated and is the function of score
\* given by the thresholds.
C6_Original ==
    Returned =>
        /\ result.status \in Statuses
        /\ result.status = "Normal" <=> Tenths(result.score) < 500
        /\ result.status = "Suspect" <=>
              (500 <= Tenths(result.score) /\ Tenths(result.score) < 800)
        /\ result.status = "Outdated" <=> Tenths(result.score) >= 800

\* C6, amended: on the inference path status is one of Normal, Suspect,
\* Outdated and is the function of score given by the thresholds; the
\* Verdict of the short-circuit path carries a fourth status, Error, with
\* score 100.
C6_StatusFromScore ==
    Returned =>
        IF HtmlNonEmpty
        THEN /\ result.status \in Statuses
             /\ result.status =
                  (IF Tenths(result.score) < 500 THEN "Normal"
                   ELSE IF Tenths(result.score) < 800 THEN "Suspect"
                   ELSE "Outdated")
        ELSE /\ result.status = "Error"
             /\ result.score = PyInt(100)

C6_Witness ==
    /\ Returned /\ HtmlNonEmpty
    /\ result.score = PyFloat(495)
    /\ result.status = "Normal"

\* C7: with non-empty html, brokenLinks holds one line "<url> (status:
\* <code>)" for each entry of linkStatus whose code is not 200, in the order
\* of linkStatus, the lines separated by newlines, and is empty when there
\* is none; so it is the same whatever the inference call did.
C7_BrokenLinks ==
    (Returned /\ HtmlNonEmpty) =>
        LET bad == SelectSeq(crawl_result.link_status, LAMBDA e : e.code # 200)
            bl == result.broken_links
        IN /\ Len(bl) = IF bad = <<>> THEN 0 ELSE 2 * Len(bad) - 1
           /\ \A i \in 1 .. Len(bad) :
                bl[2 * i - 1] =
                    bad[i].link \o " (status: " \o ToString(bad[i].code) \o ")"
           /\ \A i \in 1 .. Len(bad) - 1 : bl[2 * i] = "\n"

C7_Witness ==
    /\ Returned /\ HtmlNonEmpty
    /\ response.kind = "raise"
    /\ \E i, j \in 1 .. Len(crawl_result.link_status) :
         /\ crawl_result.link_status[i].code = 200
         /\ crawl_result.link_status[j].code = 403
    /\ Len(result.broken_links) = 1

\* C8: when the reply parses as a JSON object, a missing score resolves to
\* 100 (and the status to Outdated), a missing notes to the placeholder, a
\* field that is present is taken from the parsed reply, each field on its
\* own.
C8_Defaults ==
    (Finished /\ HtmlNonEmpty /\ ParsedObject) =>
        /\ score = (IF HasField("score") THEN ParsedVal.items["score"] ELSE PyInt(100))
        /\ notes = (IF HasField("notes") THEN ParsedVal.items["notes"]
                    ELSE PyStr(<<"no valid reply from the API">>))
        /\ ~HasField("score") =>
              (Returned /\ result.score = PyInt(100) /\ result.status = "Outdated"
               /\ result.notes = notes)

C8_Witness ==
    /\ Returned /\ HtmlNonEmpty /\ ParsedObject
    /\ ~HasField("score") /\ HasField("notes")
    /\ result.score = PyInt(100)
    /\ result.notes = ParsedVal.items["notes"]

\* C9, as claimed: in every Verdict returned, the sentinel included, url and
\* lastUpdated are those of the crawl input.
C9_Original ==
    Returned =>
        /\ result.url = crawl_result.url
        /\ result.last_updated = crawl_result.last_updated

\* C9, amended: every Verdict returned has the url of the crawl input; on
\* the inference path (the fail-safe Verdict included) lastUpdated is that
\* of the crawl input, empty or not; the sentinel Verdict of the
\* short-circuit path has an empty lastUpdated whatever the input holds.
C9_Copied ==
    Returned =>
        /\ result.url = crawl_result.url
        /\ HtmlNonEmpty => result.last_updated = crawl_result.last_updated
        /\ HtmlEmpty => result.last_updated = ""

C9_Witness ==
    /\ Returned /\ HtmlEmpty
    /\ crawl_result.last_updated # ""
    /\ result.url = crawl_result.url
    /\ result.last_updated = ""

\* C10: an evaluation makes at most one call to the inference model, and the
\* call is over before a Verdict is returned; after a failed call or an
\* unparseable reply there is no second call and exactly one Verdict is
\* produced.
C10_SingleCall ==
    /\ calls <= 1
    /\ verdicts <= 1
    /\ pc \in {"idle", "calling"} => calls = 0
    /\ (Returned /\ HtmlNonEmpty) => (calls = 1 /\ response # Unset)
    /\ (Finished /\ HtmlNonEmpty /\ InferenceFailed) =>
          (calls = 1 /\ verdicts = 1 /\ Returned)

C10_Witness ==
    /\ Returned /\ HtmlNonEmpty
    /\ response.kind = "raise"
    /\ calls = 1 /\ verdicts = 1

====
